---- MODULE Spec2Model ----
(***************************************************************************)
(* Model of the RAG chat backend approaches:                               *)
(*   app/backend/approaches/chatapproach.py          (ChatApproach)        *)
(*   app/backend/approaches/chatreadretrieveread.py  (iterative strategy)  *)
(*   app/backend/approaches/retrievethenread.py      (direct strategy)     *)
(*                                                                         *)
(* Texts are sequences of one-character strings, so that splitting,        *)
(* searching for the marker and the regular expression are computed        *)
(* character by character as Python computes them.                         *)
(***************************************************************************)
EXTENDS Integers, Sequences, FiniteSets, TLC

VARIABLES
    pc,                          \* position of the operation being run
    text,                        \* extract_followup_questions: its argument
    extracted,                   \* extract_followup_questions: its result
    system_prompt,               \* get_messages_from_history: its arguments
    few_shots,
    history,
    user_content,
    max_tokens,
    messages,                    \* get_messages_from_history: its result
    approach,                    \* the class whose methods run
    response_message,            \* chat_completion.choices[0].message of the query-rewrite call
    user_query,                  \* get_search_query: the original user query
    query_text,                  \* get_search_query: what it returned or raised
    overrides,                   \* the request's override mapping
    should_stream,               \* run_with_streaming (TRUE) or run_without_streaming
    search_docs,                 \* how many documents the search service will return
    stream,                      \* the chunks the answer completion will deliver
    calls,                       \* the external calls issued and completed, in order
    search_call,                 \* the arguments of the search call
    results,                     \* the source lines built from the search results
    pulled,                      \* chunks pulled from the completion stream so far
    followup_questions_started,  \* reassembler state
    followup_content,            \* reassembler buffer
    events,                      \* events yielded to the caller, in order
    response,                    \* what the request returned or raised
    answer_user_content,         \* the user content of the answer prompt
    data_points,                 \* extra_info["data_points"]
    override_prompt,             \* get_system_prompt: its arguments
    follow_up_questions_prompt,
    system_message               \* get_system_prompt: what it returned or raised

extractVars == <<text, extracted>>
promptVars == <<system_prompt, few_shots, history, user_content, max_tokens, messages>>
queryVars == <<approach, response_message, user_query, query_text>>
inputVars == <<overrides, should_stream, search_docs, stream>>
requestVars == <<calls, search_call, results, response>>
streamVars == <<pulled, followup_questions_started, followup_content, events>>
answerVars == <<answer_user_content, data_points>>
templateVars == <<override_prompt, follow_up_questions_prompt, system_message>>
vars == <<pc, extractVars, promptVars, queryVars, inputVars, requestVars, streamVars,
          answerVars, templateVars>>

(***************************************************************************)
(* Bounds                                                                  *)
(***************************************************************************)
MaxTextLen == 7
MaxHistory == 4
MaxContentTokens == 2
MaxBudget == 12
MaxToolCalls == 2
MaxChunks == 3
MaxFragments == 4
MaxDocs == 2
MaxOverrideLen == 4

(***************************************************************************)
(* Text helpers                                                            *)
(***************************************************************************)
RECURSIVE SeqsUpTo(_, _)
SeqsUpTo(S, n) ==
    IF n = 0 THEN {<<>>}
    ELSE LET shorter == SeqsUpTo(S, n - 1)
         IN  shorter \cup {Append(s, c) : s \in {t \in shorter : Len(t) = n - 1}, c \in S}

\* Characters a completion text is drawn from: one ordinary character and the
\* two characters the follow-up markers are made of.
TextAlphabet == {"a", "<", ">"}

\* s[i..i+1] = "<<"
MarkerAt(s, i) == i >= 1 /\ i + 1 <= Len(s) /\ s[i] = "<" /\ s[i + 1] = "<"

\* s[i..i+1] = ">>"
CloserAt(s, i) == i >= 1 /\ i + 1 <= Len(s) /\ s[i] = ">" /\ s[i + 1] = ">"

\* "<<" in content
ContainsMarker(s) == \E i \in 1..Len(s) : MarkerAt(s, i)

\* content.index("<<"), 1-based; only used when ContainsMarker(s)
IndexOfMarker(s) == CHOOSE i \in 1..Len(s) : MarkerAt(s, i) /\ \A j \in 1..(i - 1) : ~MarkerAt(s, j)

\* content.split("<<")[0]
SplitFirst(s) == IF ContainsMarker(s) THEN SubSeq(s, 1, IndexOfMarker(s) - 1) ELSE s

\* first position >= i holding ">" (Len(s)+1 when there is none): where the
\* greedy run [^>>]+ (a character class: any character but ">") must stop
FirstGt(s, i) ==
    IF \E k \in i..Len(s) : s[k] = ">"
    THEN CHOOSE k \in i..Len(s) : s[k] = ">" /\ \A j \in i..(k - 1) : s[j] # ">"
    ELSE Len(s) + 1

\* re.findall(r"<<([^>>]+)>>", content), scanning from position i
RECURSIVE FindAllFrom(_, _)
FindAllFrom(s, i) ==
    IF i > Len(s) THEN <<>>
    ELSE IF MarkerAt(s, i)
         THEN LET k == FirstGt(s, i + 2)
              IN  IF k > i + 2 /\ CloserAt(s, k)
                  THEN <<SubSeq(s, i + 2, k - 1)>> \o FindAllFrom(s, k + 2)
                  ELSE FindAllFrom(s, i + 1)
         ELSE FindAllFrom(s, i + 1)

\* Every substring delimited by a "<<" and the next ">>", one entry per pair,
\* scanning from position i: the extraction as the specification words it
\* (the non-greedy pattern <<(.*?)>>).
RECURSIVE DelimitedPairsFrom(_, _)
DelimitedPairsFrom(s, i) ==
    IF i > Len(s) THEN <<>>
    ELSE IF MarkerAt(s, i) /\ \E k \in (i + 2)..Len(s) : CloserAt(s, k)
         THEN LET k == CHOOSE k \in (i + 2)..Len(s) :
                          CloserAt(s, k) /\ \A j \in (i + 2)..(k - 1) : ~CloserAt(s, j)
              IN  <<SubSeq(s, i + 2, k - 1)>> \o DelimitedPairsFrom(s, k + 2)
         ELSE DelimitedPairsFrom(s, i + 1)

\* ChatApproach.extract_followup_questions (the same line in
\* ChatReadRetrieveReadApproach)
extract_followup_questions(content) == <<SplitFirst(content), FindAllFrom(content, 1)>>

(***************************************************************************)
(* Specification SpecExtract: extract_followup_questions on every text     *)
(***************************************************************************)
NoResult == <<"none">>

IdleExtract == text = <<>> /\ extracted = NoResult

IdlePrompt ==
    /\ system_prompt = <<>>
    /\ few_shots = <<>>
    /\ history = <<>>
    /\ user_content = <<>>
    /\ max_tokens = 0
    /\ messages = <<>>

IdleQuery ==
    /\ approach = "none"
    /\ response_message = [tool_calls |-> <<>>, function_call |-> <<>>, content |-> <<>>]
    /\ user_query = <<>>
    /\ query_text = [kind |-> "none", value |-> <<>>]

NoSearchCall ==
    [query_text |-> <<>>, vector |-> <<>>, query_type |-> "none", query_caption |-> FALSE]
NoResponse == [kind |-> "none", content |-> <<>>, followup_questions |-> <<>>,
               context |-> "none", session_state |-> FALSE]

\* the value of a list of source lines that has not been built
NoLines == <<[source |-> 0, body |-> "none"]>>

IdleAnswer ==
    /\ answer_user_content = [question |-> <<>>, sources |-> NoLines]
    /\ data_points = NoLines

IdleTemplate ==
    /\ override_prompt = <<>>
    /\ follow_up_questions_prompt = <<>>
    /\ system_message = [kind |-> "none", value |-> <<>>]

IdleRequest ==
    /\ IdleAnswer
    /\ overrides = [retrieval_mode |-> "unset", semantic_ranker |-> FALSE,
                    semantic_captions |-> FALSE, suggest_followup_questions |-> FALSE]
    /\ should_stream = FALSE
    /\ search_docs = 0
    /\ stream = <<>>
    /\ calls = <<>>
    /\ search_call = NoSearchCall
    /\ results = <<>>
    /\ response = NoResponse
    /\ pulled = 0
    /\ followup_questions_started = FALSE
    /\ followup_content = <<>>
    /\ events = <<>>

InitExtract ==
    /\ pc = "extract"
    /\ text \in SeqsUpTo(TextAlphabet, MaxTextLen)
    /\ extracted = NoResult
    /\ IdlePrompt
    /\ IdleQuery
    /\ IdleRequest
    /\ IdleTemplate

Extract ==
    /\ pc = "extract"
    /\ extracted' = extract_followup_questions(text)
    /\ pc' = "extracted"
    /\ UNCHANGED <<text, templateVars, answerVars, promptVars, queryVars, inputVars,
                   requestVars, streamVars>>

NextExtract == Extract

SpecExtract == InitExtract /\ [][NextExtract]_vars

(***************************************************************************)
(* Prompt Builder: get_messages_from_history                               *)
(*                                                                         *)
(* A message is [role, content]; a content is the sequence of its tokens.  *)
(* MessageBuilder (core/messagebuilder.py) is not among the sources: its   *)
(* two operations are modelled from the specification (Token Accountant,   *)
(* Prompt Builder step 4).                                                 *)
(***************************************************************************)
SYSTEM == "system"
USER == "user"
ASSISTANT == "assistant"

Message(role, content) == [role |-> role, content |-> content]

\* list.insert(index, x) on a 0-based index; an index past the end appends
ListInsert(list, index, x) ==
    IF index >= Len(list) THEN Append(list, x)
    ELSE SubSeq(list, 1, index) \o <<x>> \o SubSeq(list, index + 1, Len(list))

\* MessageBuilder.insert_message(role, content, index)
insert_message(msgs, role, content, index) == ListInsert(msgs, index, Message(role, content))

\* MessageBuilder.count_tokens_for_message(message): the estimated cost of
\* one message, a function of its text alone
count_tokens_for_message(message) == Len(message.content)

\* for shot in reversed(few_shots): message_builder.insert_message(role, content)
\* (insert_message's default index is 1: right after the system message)
RECURSIVE InsertFewShots(_, _, _)
InsertFewShots(msgs, shots, n) ==
    IF n = 0 THEN msgs
    ELSE InsertFewShots(insert_message(msgs, shots[n].role, shots[n].content, 1), shots, n - 1)

\* reversed(list)
Reversed(list) == [i \in 1..Len(list) |-> list[Len(list) + 1 - i]]

\* history[:-1]
AllButLast(list) == IF Len(list) = 0 THEN <<>> ELSE SubSeq(list, 1, Len(list) - 1)

\* the loop over newest_to_oldest from position i, with the builder's list
\* and the running total_token_count; "break" ends the recursion
RECURSIVE HistoryLoop(_, _, _, _, _, _)
HistoryLoop(msgs, total_token_count, newest_to_oldest, i, append_index, budget) ==
    IF i > Len(newest_to_oldest) THEN msgs
    ELSE LET message == newest_to_oldest[i]
             potential_message_count == count_tokens_for_message(message)
         IN  IF total_token_count + potential_message_count > budget
             THEN msgs
             ELSE HistoryLoop(insert_message(msgs, message.role, message.content, append_index),
                              total_token_count + potential_message_count,
                              newest_to_oldest, i + 1, append_index, budget)

\* the same loop walking the history oldest first (reversed() forgotten)
get_messages_from_history_OldestFirst(sys, hist, content, budget, shots) ==
    LET append_index == Len(shots) + 1
        withUser == insert_message(InsertFewShots(<<Message(SYSTEM, sys)>>, shots, Len(shots)),
                                   USER, content, append_index)
    IN  HistoryLoop(withUser, count_tokens_for_message(withUser[Len(withUser)]),
                    AllButLast(hist), 1, append_index, budget)

\* ChatReadRetrieveReadApproach.get_messages_from_history
get_messages_from_history(sys, hist, content, budget, shots) ==
    LET message_builder == InsertFewShots(<<Message(SYSTEM, sys)>>, shots, Len(shots))
        append_index == Len(shots) + 1
        withUser == insert_message(message_builder, USER, content, append_index)
        total_token_count == count_tokens_for_message(withUser[Len(withUser)])
        newest_to_oldest == Reversed(AllButLast(hist))
    IN  HistoryLoop(withUser, total_token_count, newest_to_oldest, 1, append_index, budget)

RECURSIVE TotalTokens(_)
TotalTokens(msgs) ==
    IF msgs = <<>> THEN 0 ELSE count_tokens_for_message(Head(msgs)) + TotalTokens(Tail(msgs))

\* the few-shot lists a call is given: none (the answer prompt), or the four
\* query_prompt_few_shots (the query-rewrite prompt)
query_prompt_few_shots ==
    << Message(USER, <<"q1">>), Message(ASSISTANT, <<"a1">>),
       Message(USER, <<"q2">>), Message(ASSISTANT, <<"a2">>) >>

Contents == SeqsUpTo({"t"}, MaxContentTokens) \ {<<>>}
HistoryMessages == {Message(r, c) : r \in {USER, ASSISTANT}, c \in Contents}

InitPrompt ==
    /\ pc = "build"
    /\ system_prompt = <<"s", "s">>
    /\ few_shots \in {<<>>, query_prompt_few_shots}
    /\ history \in SeqsUpTo(HistoryMessages, MaxHistory)
    /\ user_content \in Contents
    /\ max_tokens \in 0..MaxBudget
    /\ messages = <<>>
    /\ IdleExtract
    /\ IdleQuery
    /\ IdleRequest
    /\ IdleTemplate

Build ==
    /\ pc = "build"
    /\ messages' = get_messages_from_history(system_prompt, history, user_content, max_tokens, few_shots)
    /\ pc' = "built"
    /\ UNCHANGED <<system_prompt, few_shots, history, user_content, max_tokens,
                   extractVars, templateVars, answerVars, queryVars, inputVars, requestVars,
                   streamVars>>

NextPrompt == Build

SpecPrompt == InitPrompt /\ [][NextPrompt]_vars

(***************************************************************************)
(* Query extraction: get_search_query                                      *)
(*                                                                         *)
(* A response message holds tool_calls (the list ChatApproach reads),      *)
(* function_call (the optional entry ChatReadRetrieveReadApproach reads,   *)
(* a list of at most one) and content (None or a text).  A call's          *)
(* arguments are its JSON payload: malformed, or an object with or without *)
(* a search_query field.                                                   *)
(***************************************************************************)
NO_RESPONSE == <<"0">>
None == <<"None">>

RECURSIVE LStrip(_)
LStrip(s) == IF s # <<>> /\ Head(s) = " " THEN LStrip(Tail(s)) ELSE s

RECURSIVE RStrip(_)
RStrip(s) == IF s # <<>> /\ s[Len(s)] = " " THEN RStrip(SubSeq(s, 1, Len(s) - 1)) ELSE s

\* str.strip()
Strip(s) == RStrip(LStrip(s))

\* truthiness of an optional text: neither None nor ""
Truthy(content) == content # None /\ content # <<>>

Return(value) == [kind |-> "return", value |-> value]
Raise(error) == [kind |-> "raise", value |-> <<error>>]
NotCalled == [kind |-> "none", value |-> <<>>]

Malformed == [valid |-> FALSE, has_search_query |-> FALSE, search_query |-> <<>>]
Object(q) == [valid |-> TRUE, has_search_query |-> TRUE, search_query |-> q]
EmptyObject == [valid |-> TRUE, has_search_query |-> FALSE, search_query |-> <<>>]

\* arg.get("search_query", self.NO_RESPONSE) on a parsed payload
ArgGet(arg) == IF arg.has_search_query THEN arg.search_query ELSE NO_RESPONSE

\* the sentinel test dropped: whatever search_query holds is returned
SearchSourcesQuery_NoSentinelTest(arguments, otherwise) ==
    IF ~arguments.valid THEN Raise("JSONDecodeError")
    ELSE Return(ArgGet(arguments))

\* the parse error swallowed: a malformed payload taken for "no query"
SearchSourcesQuery_ErrorSwallowed(arguments, otherwise) ==
    IF ~arguments.valid THEN otherwise
    ELSE IF ArgGet(arguments) # NO_RESPONSE THEN Return(ArgGet(arguments))
    ELSE otherwise

\* json.loads(function.arguments), arg.get(...) and the sentinel test of one
\* search_sources call; `otherwise` is what the method goes on to when the
\* call carries the sentinel
SearchSourcesQuery(arguments, otherwise) ==
    IF ~arguments.valid THEN Raise("JSONDecodeError")
    ELSE IF ArgGet(arguments) # NO_RESPONSE THEN Return(ArgGet(arguments))
    ELSE otherwise

\* ChatApproach.get_search_query: for tool in response_message.tool_calls
RECURSIVE ToolCallsLoop(_, _, _)
ToolCallsLoop(tool_calls, i, query) ==
    IF i > Len(tool_calls) THEN Return(query)
    ELSE LET tool == tool_calls[i]
         IN  IF tool.type # "function" THEN ToolCallsLoop(tool_calls, i + 1, query)
             ELSE IF tool.name = "search_sources"
                  THEN SearchSourcesQuery(tool.arguments, ToolCallsLoop(tool_calls, i + 1, query))
                  ELSE ToolCallsLoop(tool_calls, i + 1, query)

\* the plain-text branch of both methods: a non-empty content that is not
\* the sentinel after strip() is returned as it is
PlainTextQuery(content, query) ==
    IF Strip(content) # NO_RESPONSE THEN Return(content) ELSE Return(query)

\* ChatApproach.get_search_query
ChatApproach_get_search_query(message, query) ==
    IF message.tool_calls # <<>> THEN ToolCallsLoop(message.tool_calls, 1, query)
    ELSE IF Truthy(message.content) THEN PlainTextQuery(message.content, query)
    ELSE Return(query)

\* ChatReadRetrieveReadApproach.get_search_query
ChatReadRetrieveReadApproach_get_search_query(message, query) ==
    IF message.function_call # <<>>
    THEN LET function_call == message.function_call[1]
         IN  IF function_call.name = "search_sources"
             THEN SearchSourcesQuery(function_call.arguments, Return(query))
             ELSE Return(query)
    ELSE IF Truthy(message.content) THEN PlainTextQuery(message.content, query)
    ELSE Return(query)

\* self.get_search_query(chat_completion, original_user_query)
get_search_query(class, message, query) ==
    IF class = "ChatApproach" THEN ChatApproach_get_search_query(message, query)
    ELSE ChatReadRetrieveReadApproach_get_search_query(message, query)

QueryTexts == {<<"0">>, <<" ", "0">>, <<"q">>}
Payloads == {Malformed, EmptyObject} \cup {Object(q) : q \in QueryTexts}
ToolCalls ==
    [type : {"function", "other"}, name : {"search_sources", "other_function"}, arguments : Payloads]
FunctionCalls == {c \in ToolCalls : c.type = "function"}
ContentTexts == {None, <<>>, <<"0">>, <<"0", " ">>, <<"c">>}
UserQueries == {<<"u">>, <<"0">>}

\* the response messages each class can be handed
ResponseMessages(class) ==
    IF class = "ChatApproach"
    THEN [tool_calls : SeqsUpTo(ToolCalls, MaxToolCalls), function_call : {<<>>}, content : ContentTexts]
    ELSE [tool_calls : {<<>>}, function_call : SeqsUpTo(FunctionCalls, 1), content : ContentTexts]

Approaches == {"ChatApproach", "ChatReadRetrieveReadApproach"}

InitQuery ==
    /\ pc = "query"
    /\ approach \in Approaches
    /\ response_message \in ResponseMessages(approach)
    /\ user_query \in UserQueries
    /\ query_text = NotCalled
    /\ IdleExtract
    /\ IdlePrompt
    /\ IdleRequest
    /\ IdleTemplate

GetSearchQuery ==
    /\ pc = "query"
    /\ query_text' = get_search_query(approach, response_message, user_query)
    /\ pc' = "queried"
    /\ UNCHANGED <<approach, response_message, user_query, extractVars, templateVars,
                   answerVars, promptVars, inputVars, requestVars, streamVars>>

NextQuery == GetSearchQuery

SpecQuery == InitQuery /\ [][NextQuery]_vars

(***************************************************************************)
(* System-prompt override protocol: get_system_prompt, and step 3 of       *)
(* run_until_final_call                                                    *)
(*                                                                         *)
(* A template is a sequence of characters and replacement fields; a field  *)
(* "{name}" is one element.  str.format replaces every field by the        *)
(* keyword argument of its name and raises KeyError for a field without    *)
(* one; the texts it splices in are not formatted again.                   *)
(***************************************************************************)
FollowUpSlot == "{follow_up_questions_prompt}"
InjectedSlot == "{injected_prompt}"
Slots == {FollowUpSlot, InjectedSlot}

\* system_message_chat_conversation: the instructions, then the two fields,
\* each on a line of its own
system_message_chat_conversation == <<"D", "\n", FollowUpSlot, "\n", InjectedSlot, "\n">>

\* follow_up_questions_prompt_content
follow_up_questions_prompt_content == <<"F">>

\* template.format(**kwargs); kwargs is a function from field to text
RECURSIVE Format(_, _)
Format(template, kwargs) ==
    IF template = <<>> THEN Return(<<>>)
    ELSE LET field == Head(template)
             rest == Format(Tail(template), kwargs)
         IN  IF field \in Slots /\ field \notin DOMAIN kwargs THEN Raise("KeyError")
             ELSE IF rest.kind = "raise" THEN rest
             ELSE IF field \in Slots THEN Return(kwargs[field] \o rest.value)
             ELSE Return(<<field>> \o rest.value)

\* override_prompt.startswith(">>>")
StartsWithPrefix(override) ==
    Len(override) >= 3 /\ override[1] = ">" /\ override[2] = ">" /\ override[3] = ">"

\* override_prompt[3:]
AfterPrefix(override) == SubSeq(override, 4, Len(override))

\* format(injected_prompt=..., follow_up_questions_prompt=...)
BothFields(injected, follow_up) ==
    [field \in Slots |-> IF field = InjectedSlot THEN injected ELSE follow_up]

\* format(follow_up_questions_prompt=...)
FollowUpField(follow_up) == [field \in {FollowUpSlot} |-> follow_up]

\* ChatApproach.get_system_prompt
get_system_prompt(override, follow_up) ==
    IF override = None
    THEN Format(system_message_chat_conversation, BothFields(<<>>, follow_up))
    ELSE IF StartsWithPrefix(override)
         THEN Format(system_message_chat_conversation,
                     BothFields(AfterPrefix(override) \o <<"\n">>, follow_up))
         ELSE Format(override, FollowUpField(follow_up))

\* ChatReadRetrieveReadApproach.run_until_final_call, step 3: system_message
Step3SystemMessage(prompt_override, follow_up) ==
    IF prompt_override = None
    THEN Format(system_message_chat_conversation, BothFields(<<>>, follow_up))
    ELSE IF StartsWithPrefix(prompt_override)
         THEN Format(system_message_chat_conversation,
                     BothFields(AfterPrefix(prompt_override) \o <<"\n">>, follow_up))
         ELSE Format(prompt_override, FollowUpField(follow_up))

\* the system message as the running class computes it
SystemMessageOf(class, override, follow_up) ==
    IF class = "ChatApproach" THEN get_system_prompt(override, follow_up)
    ELSE Step3SystemMessage(override, follow_up)

\* what an override is made of: the prefix character, another character and
\* the two fields
OverrideAlphabet == {">", "x"} \cup Slots
OverridePrompts == {None} \cup SeqsUpTo(OverrideAlphabet, MaxOverrideLen)

\* self.follow_up_questions_prompt_content if
\* overrides.get("suggest_followup_questions") else ""
FollowUpPrompts == {follow_up_questions_prompt_content, <<>>}

\* Specification SpecSystemPrompt: the system message for every override
InitSystemPrompt ==
    /\ pc = "template"
    /\ approach \in Approaches
    /\ override_prompt \in OverridePrompts
    /\ follow_up_questions_prompt \in FollowUpPrompts
    /\ system_message = NotCalled
    /\ response_message = [tool_calls |-> <<>>, function_call |-> <<>>, content |-> <<>>]
    /\ user_query = <<>>
    /\ query_text = NotCalled
    /\ IdleExtract
    /\ IdlePrompt
    /\ IdleRequest

GetSystemPrompt ==
    /\ pc = "template"
    /\ system_message' = SystemMessageOf(approach, override_prompt, follow_up_questions_prompt)
    /\ pc' = "formatted"
    /\ UNCHANGED <<override_prompt, follow_up_questions_prompt, extractVars, answerVars,
                   promptVars, queryVars, inputVars, requestVars, streamVars>>

NextSystemPrompt == GetSystemPrompt

SpecSystemPrompt == InitSystemPrompt /\ [][NextSystemPrompt]_vars

(***************************************************************************)
(* One request: run_until_final_call, then run_without_streaming or        *)
(* run_with_streaming (iterative strategy), and RetrieveThenReadApproach   *)
(* .run (direct strategy).                                                 *)
(*                                                                         *)
(* Every await of an external call is two steps, the call issued and the   *)
(* call completed: the task is suspended in between.  ChatApproach leaves  *)
(* run_until_final_call abstract; its subclasses run the steps of          *)
(* ChatReadRetrieveReadApproach.run_until_final_call, with the methods     *)
(* (get_search_query) of their own class.                                  *)
(***************************************************************************)
Iterative == {"ChatApproach", "ChatReadRetrieveReadApproach"}
Direct == "RetrieveThenReadApproach"

RetrievalModes == {"text", "vectors", "hybrid", "unset", "other"}

\* overrides.get("retrieval_mode") in ["text", "hybrid", None]
has_text(ov) == ov.retrieval_mode \in {"text", "hybrid", "unset"}

\* has_vector computed like has_text (the two lists swapped by a slip)
has_vector_AsText(ov) == ov.retrieval_mode \in {"text", "hybrid", "unset"}

\* overrides.get("retrieval_mode") in ["vectors", "hybrid", None]
has_vector(ov) == ov.retrieval_mode \in {"vectors", "hybrid", "unset"}

\* True if overrides.get("semantic_captions") and has_text else False
use_semantic_captions(ov) == ov.semantic_captions /\ has_text(ov)

Embedding == <<"embedding">>

\* query_vector: the embedding when has_vector, else None
query_vector(ov) == IF has_vector(ov) THEN Embedding ELSE None

\* the semantic branch taken on the flag alone
IterativeSearchCall_RankerAlone(ov, query) ==
    LET kept == IF has_text(ov) THEN query ELSE None
    IN  IF ov.semantic_ranker
        THEN [query_text |-> kept, vector |-> query_vector(ov), query_type |-> "semantic",
              query_caption |-> use_semantic_captions(ov)]
        ELSE [query_text |-> kept, vector |-> query_vector(ov), query_type |-> "simple",
              query_caption |-> FALSE]

\* run_until_final_call, step 2: the arguments of search_client.search
IterativeSearchCall(ov, query) ==
    LET kept == IF has_text(ov) THEN query ELSE None
    IN  IF ov.semantic_ranker /\ has_text(ov)
        THEN [query_text |-> kept, vector |-> query_vector(ov), query_type |-> "semantic",
              query_caption |-> use_semantic_captions(ov)]
        ELSE [query_text |-> kept, vector |-> query_vector(ov), query_type |-> "simple",
              query_caption |-> FALSE]

\* Approach.search (approaches/approach.py, not among the sources), from the
\* Retrieval Composer of the specification: the text is dropped without
\* use_text, no vector is attached without use_vector, and semantic ranking
\* (with its captions) is applied only with use_text and the flag
Approach_search(q, vectors, use_text, use_vector, use_ranker, use_captions) ==
    [query_text |-> IF use_text THEN q ELSE None,
     vector |-> IF use_vector THEN vectors ELSE None,
     query_type |-> IF use_ranker /\ use_text THEN "semantic" ELSE "simple",
     query_caption |-> use_ranker /\ use_text /\ use_captions]

\* RetrieveThenReadApproach.run: vectors and the call of self.search
DirectSearchCall(ov, q) ==
    Approach_search(q, IF has_vector(ov) THEN Embedding ELSE None,
                    has_text(ov), has_vector(ov), ov.semantic_ranker, ov.semantic_captions)

SearchCallOf(class, ov, query) ==
    IF class = Direct THEN DirectSearchCall(ov, query) ELSE IterativeSearchCall(ov, query)

\* the source lines of n documents, built from "captions" or from "content"
SourceLines(n, body) == [i \in 1..n |-> [source |-> i, body |-> body]]

\* a search that found nothing taken for an error
IterativeResults_NoDocsFails(ov, call, n) ==
    IF n = 0 THEN [kind |-> "raise", lines |-> <<>>]
    ELSE [kind |-> "return",
          lines |-> SourceLines(n, IF use_semantic_captions(ov) THEN "captions" ELSE "content")]

\* run_until_final_call: results = [... async for doc in r].  A document's
\* "@search.captions" is None unless the call asked for captions, and joining
\* over None raises.
IterativeResults(ov, call, n) ==
    IF use_semantic_captions(ov)
    THEN IF n > 0 /\ ~call.query_caption
         THEN [kind |-> "raise", lines |-> <<>>]
         ELSE [kind |-> "return", lines |-> SourceLines(n, "captions")]
    ELSE [kind |-> "return", lines |-> SourceLines(n, "content")]

\* Approach.get_sources_content (approaches/approach.py, not among the
\* sources), from the specification's source-line normalization
get_sources_content(n, use_captions) ==
    [kind |-> "return", lines |-> SourceLines(n, IF use_captions THEN "captions" ELSE "content")]

ResultsOf(class, ov, call, n) ==
    IF class = Direct THEN get_sources_content(n, ov.semantic_captions)
    ELSE IterativeResults(ov, call, n)

LineBreak == [source |-> 0, body |-> "\n"]

\* "\n".join(lines): the lines with a line break between two of them
RECURSIVE JoinLines(_)
JoinLines(lines) ==
    IF lines = <<>> THEN <<>>
    ELSE IF Len(lines) = 1 THEN lines
    ELSE <<Head(lines), LineBreak>> \o JoinLines(Tail(lines))

\* user_content=original_user_query + "\n\nSources:\n" + content (iterative
\* strategy); user_content = q + "\n" + f"Sources:\n {content}" (direct
\* strategy): the question, then the sources block
UserContent(question, lines) == [question |-> question, sources |-> JoinLines(lines)]

Failed(error) == [kind |-> "raise", content |-> <<error>>, followup_questions |-> <<>>,
                  context |-> "none", session_state |-> FALSE]

\* the query the retrieval runs with, once get_search_query has returned
Query == IF approach = Direct THEN user_query ELSE query_text.value

\* the first step of the request: the query-rewrite completion issued
\* (iterative strategy); the direct strategy goes straight to the retrieval
\* with the user's question
Start ==
    /\ pc = "start"
    /\ IF approach = Direct
       THEN /\ pc' = IF has_vector(overrides) THEN "embed" ELSE "search"
            /\ UNCHANGED calls
       ELSE /\ pc' = "await_rewrite"
            /\ calls' = Append(calls, "rewrite_issued")
    /\ UNCHANGED <<extractVars, templateVars, answerVars, promptVars, queryVars, inputVars,
                   search_call, results, response, streamVars>>

\* the query-rewrite completion returns: query_text = self.get_search_query(...)
CompleteQueryRewrite ==
    /\ pc = "await_rewrite"
    /\ calls' = Append(calls, "rewrite_done")
    /\ query_text' = get_search_query(approach, response_message, user_query)
    /\ IF query_text'.kind = "raise"
       THEN pc' = "failed" /\ response' = Failed(query_text'.value[1])
       ELSE /\ pc' = IF has_vector(overrides) THEN "embed" ELSE "search"
            /\ UNCHANGED response
    /\ UNCHANGED <<approach, response_message, user_query, extractVars, templateVars,
                   answerVars, promptVars, inputVars, search_call, results, streamVars>>

IssueEmbedding ==
    /\ pc = "embed"
    /\ calls' = Append(calls, "embedding_issued")
    /\ pc' = "await_embed"
    /\ UNCHANGED <<extractVars, templateVars, answerVars, promptVars, queryVars, inputVars,
                   search_call, results, response, streamVars>>

CompleteEmbedding ==
    /\ pc = "await_embed"
    /\ calls' = Append(calls, "embedding_done")
    /\ pc' = "search"
    /\ UNCHANGED <<extractVars, templateVars, answerVars, promptVars, queryVars, inputVars,
                   search_call, results, response, streamVars>>

IssueSearch ==
    /\ pc = "search"
    /\ search_call' = SearchCallOf(approach, overrides, Query)
    /\ calls' = Append(calls, "search_issued")
    /\ pc' = "await_search"
    /\ UNCHANGED <<extractVars, templateVars, answerVars, promptVars, queryVars, inputVars,
                   results, response, streamVars>>

\* the search returns and its documents are consumed into source lines; the
\* user content of the answer prompt is built from them, and (iterative
\* strategy) extra_info with its data_points
CompleteSearch ==
    /\ pc = "await_search"
    /\ calls' = Append(calls, "search_consumed")
    /\ LET built == ResultsOf(approach, overrides, search_call, search_docs)
       IN  IF built.kind = "raise"
           THEN /\ pc' = "failed"
                /\ response' = Failed("TypeError")
                /\ UNCHANGED <<results, answerVars>>
           ELSE /\ pc' = "final_call_ready"
                /\ results' = built.lines
                /\ answer_user_content' = UserContent(user_query, built.lines)
                /\ data_points' = IF approach = Direct THEN data_points ELSE built.lines
                /\ UNCHANGED response
    /\ UNCHANGED <<extractVars, templateVars, promptVars, queryVars, inputVars,
                   search_call, streamVars>>

(***************************************************************************)
(* The answer: run_without_streaming, run_with_streaming, and the end of   *)
(* RetrieveThenReadApproach.run.                                           *)
(*                                                                         *)
(* A chunk of the completion stream is [choices, content]: choices is      *)
(* FALSE for a chunk with an empty choice list; content is the delta's     *)
(* text, None when the delta's content is None, or Missing when the delta  *)
(* has no content key (the dictionaries ChatReadRetrieveReadApproach       *)
(* iterates over; the dumped models of ChatApproach always hold the key).  *)
(* An event is [delta, context, session_state, followup_questions].        *)
(***************************************************************************)
Missing == <<"Missing">>
Role == <<"role">>

Event(delta, context, session_state, followup_questions) ==
    [delta |-> delta, context |-> context, session_state |-> session_state,
     followup_questions |-> followup_questions]

\* yield {"delta": {"role": "assistant"}, "context": extra_info, "session_state": session_state}
HeaderEvent == Event(Role, "extra_info", TRUE, None)

\* the shared context and session_state attached to every chunk
ContentEvent_WithContext(content) == Event(content, "extra_info", TRUE, None)

\* yield completion
ContentEvent(content) == Event(content, "none", FALSE, None)

\* yield {"delta": {"role": "assistant"}, "context": {"followup_questions": followup_questions}}
FinalEvent(followup_questions) == Event(Role, "followup_questions", FALSE, followup_questions)

NoChoices == [choices |-> FALSE, content |-> None]
Delta(content) == [choices |-> TRUE, content |-> content]

\* content = content or ""
OrEmpty(content) == IF content = None THEN <<>> ELSE content

\* content[content.index("<<"):]
FromMarker(content) == SubSeq(content, IndexOfMarker(content), Len(content))

\* the body of "async for event_chunk" for one chunk: the new reassembler
\* state and the events yielded
ProcessChunk(chunk, suggest, started, buffer) ==
    IF ~chunk.choices
    THEN [started |-> started, buffer |-> buffer, yielded |-> <<>>]
    ELSE LET content == OrEmpty(chunk.content)
         IN  IF suggest /\ ContainsMarker(content)
             THEN LET earlier_content == SubSeq(content, 1, IndexOfMarker(content) - 1)
                  IN  [started |-> TRUE,
                       buffer |-> buffer \o FromMarker(content),
                       yielded |-> IF earlier_content # <<>>
                                   THEN <<ContentEvent(earlier_content)>> ELSE <<>>]
             ELSE IF started
                  THEN [started |-> started, buffer |-> buffer \o content, yielded |-> <<>>]
                  ELSE [started |-> started, buffer |-> buffer,
                        yielded |-> <<ContentEvent(chunk.content)>>]

\* event["choices"][0]["delta"].get("content", "")
DeltaContent(chunk) == IF chunk.content = Missing THEN <<>> ELSE chunk.content

\* ChatReadRetrieveReadApproach.run_with_streaming, the body of "async for
\* event" for one chunk: the new reassembler state and the events yielded, or
\* the TypeError of '"<<" in content' on a content that is None
ChatReadRetrieveReadApproach_ProcessChunk(chunk, suggest, started, buffer) ==
    IF ~chunk.choices
    THEN [started |-> started, buffer |-> buffer, yielded |-> <<>>, raised |-> FALSE]
    ELSE LET content == DeltaContent(chunk)
         IN  IF suggest /\ content = None
             THEN [started |-> started, buffer |-> buffer, yielded |-> <<>>, raised |-> TRUE]
             ELSE IF suggest /\ ContainsMarker(content)
             THEN LET earlier_content == SubSeq(content, 1, IndexOfMarker(content) - 1)
                  IN  [started |-> TRUE,
                       buffer |-> buffer \o FromMarker(content),
                       yielded |-> IF earlier_content # <<>>
                                   THEN <<ContentEvent(earlier_content)>> ELSE <<>>,
                       raised |-> FALSE]
             ELSE IF started
                  THEN [started |-> started, buffer |-> buffer \o content, yielded |-> <<>>,
                        raised |-> FALSE]
                  ELSE [started |-> started, buffer |-> buffer,
                        yielded |-> <<ContentEvent(chunk.content)>>, raised |-> FALSE]

\* one iteration of the loop of the running class
ProcessChunkOf(class, chunk, suggest, started, buffer) ==
    IF class = "ChatApproach"
    THEN LET step == ProcessChunk(chunk, suggest, started, buffer)
         IN  [started |-> step.started, buffer |-> step.buffer, yielded |-> step.yielded,
              raised |-> FALSE]
    ELSE ChatReadRetrieveReadApproach_ProcessChunk(chunk, suggest, started, buffer)

\* the text of the whole answer, as a completion that is not streamed holds it
RECURSIVE AnswerText(_)
AnswerText(chunks) ==
    IF chunks = <<>> THEN <<>>
    ELSE (IF Head(chunks).choices THEN OrEmpty(Head(chunks).content) ELSE <<>>)
         \o AnswerText(Tail(chunks))

\* run_with_streaming: the first event, before the completion is awaited
YieldHeader ==
    /\ pc = "final_call_ready"
    /\ should_stream
    /\ events' = Append(events, HeaderEvent)
    /\ pc' = "header_sent"
    /\ UNCHANGED <<extractVars, templateVars, answerVars, promptVars, queryVars, inputVars, requestVars,
                   pulled, followup_questions_started, followup_content>>

\* await chat_coroutine: the answer-generation completion call is issued
IssueAnswer ==
    /\ \/ pc = "final_call_ready" /\ ~should_stream
       \/ pc = "header_sent"
    /\ calls' = Append(calls, "answer_issued")
    /\ pc' = "await_answer"
    /\ UNCHANGED <<extractVars, templateVars, answerVars, promptVars, queryVars, inputVars,
                   search_call, results, response, streamVars>>

\* the completion call returns: a stream to iterate, or the whole answer
\* (run_without_streaming; RetrieveThenReadApproach.run)
CompleteAnswer ==
    /\ pc = "await_answer"
    /\ calls' = Append(calls, "answer_done")
    /\ IF should_stream
       THEN pc' = "streaming" /\ UNCHANGED response
       ELSE /\ pc' = "done"
            /\ response' =
                 IF approach \in Iterative /\ overrides.suggest_followup_questions
                 THEN LET split == extract_followup_questions(AnswerText(stream))
                      IN  [kind |-> "return", content |-> split[1], followup_questions |-> split[2],
                           context |-> "extra_info", session_state |-> TRUE]
                 ELSE [kind |-> "return", content |-> AnswerText(stream), followup_questions |-> None,
                       context |-> "extra_info", session_state |-> TRUE]
    /\ data_points' = IF approach = Direct THEN results ELSE data_points
    /\ UNCHANGED <<extractVars, templateVars, promptVars, queryVars, inputVars,
                   search_call, results, streamVars, answer_user_content>>

\* one iteration of "async for event_chunk in await chat_coroutine"; an
\* exception raised in the body ends the generator
PullChunk ==
    /\ pc = "streaming"
    /\ pulled < Len(stream)
    /\ LET step == ProcessChunkOf(approach, stream[pulled + 1],
                                  overrides.suggest_followup_questions,
                                  followup_questions_started, followup_content)
       IN  /\ followup_questions_started' = step.started
           /\ followup_content' = step.buffer
           /\ events' = events \o step.yielded
           /\ IF step.raised
              THEN pc' = "failed" /\ response' = Failed("TypeError")
              ELSE UNCHANGED <<pc, response>>
    /\ pulled' = pulled + 1
    /\ UNCHANGED <<extractVars, templateVars, answerVars, promptVars, queryVars,
                   inputVars, calls, search_call, results>>

\* the stream is exhausted: the final event when the buffer is not empty
EndStream ==
    /\ pc = "streaming"
    /\ pulled = Len(stream)
    /\ events' = IF followup_content # <<>>
                 THEN Append(events, FinalEvent(extract_followup_questions(followup_content)[2]))
                 ELSE events
    /\ pc' = "done"
    /\ UNCHANGED <<extractVars, templateVars, answerVars, promptVars, queryVars, inputVars, requestVars,
                   pulled, followup_questions_started, followup_content>>

Next ==
    \/ Start
    \/ CompleteQueryRewrite
    \/ IssueEmbedding
    \/ CompleteEmbedding
    \/ IssueSearch
    \/ CompleteSearch
    \/ YieldHeader
    \/ IssueAnswer
    \/ CompleteAnswer
    \/ PullChunk
    \/ EndStream

Flags ==
    [retrieval_mode : RetrievalModes, semantic_ranker : BOOLEAN,
     semantic_captions : BOOLEAN, suggest_followup_questions : BOOLEAN]

InitRun ==
    /\ pc = "start"
    /\ query_text = NotCalled
    /\ calls = <<>>
    /\ search_call = NoSearchCall
    /\ results = <<>>
    /\ response = NoResponse
    /\ pulled = 0
    /\ followup_questions_started = FALSE
    /\ followup_content = <<>>
    /\ events = <<>>
    /\ IdleAnswer
    /\ IdleExtract
    /\ IdlePrompt
    /\ IdleTemplate

\* the responses of the query-rewrite completion a request is run with
RewriteResponses(class) ==
    LET call(payload) == [type |-> "function", name |-> "search_sources", arguments |-> payload]
        lists == IF class = "ChatApproach"
                 THEN {<<>>, <<call(Object(<<"q">>))>>, <<call(Object(<<"0">>))>>, <<call(Malformed)>>,
                       <<call(Object(<<"q">>)), call(Malformed)>>,
                       <<call(EmptyObject), call(Malformed)>>}
                 ELSE {<<>>, <<call(Object(<<"q">>))>>, <<call(Object(<<"0">>))>>, <<call(Malformed)>>}
    IN  {m \in ResponseMessages(class) :
            /\ m.content \in {None, <<"c">>}
            /\ (m.tool_calls \o m.function_call) \in lists}

\* the answers a request is run with
RequestStreams ==
    { <<>>,
      <<NoChoices, Delta(<<"a">>)>>,
      <<Delta(<<"a", "<", "<", "a", ">", ">">>)>> }

\* Specification SpecRequest: one request under every combination of the
\* overrides, for both strategies
InitRequest ==
    /\ InitRun
    /\ approach \in Iterative \cup {Direct}
    /\ overrides \in Flags
    /\ should_stream \in BOOLEAN
    /\ approach = Direct => ~should_stream /\ ~overrides.suggest_followup_questions
    /\ response_message \in
         IF approach = Direct THEN {[tool_calls |-> <<>>, function_call |-> <<>>, content |-> <<>>]}
         ELSE RewriteResponses(approach)
    /\ user_query = <<"u">>
    /\ search_docs \in 0..MaxDocs
    /\ stream \in RequestStreams

SpecRequest == InitRequest /\ [][Next]_vars

\* the texts a streamed delta is drawn from: with and without the marker, the
\* marker at the start, in the middle and cut in two
ChunkTexts ==
    { <<>>, <<"a">>, <<"<">>, <<">">>, <<"<", "<">>, <<">", ">">>,
      <<"a", "<", "<">>, <<"a", "<", "<", "a">>, <<"<", "<", "a", ">", ">">> }
StreamChunks == {NoChoices, Delta(None)} \cup {Delta(c) : c \in ChunkTexts}

\* the chunks each class can be handed
StreamChunksOf(class) ==
    IF class = "ChatApproach" THEN StreamChunks ELSE StreamChunks \cup {Delta(Missing)}

\* the request whose answer stream SpecStream and SpecReassemble vary: a
\* plain-text query rewrite, hybrid retrieval, one document found
InitStreamingRequest ==
    /\ InitRun
    /\ approach \in Iterative
    /\ should_stream = TRUE
    /\ response_message = [tool_calls |-> <<>>, function_call |-> <<>>, content |-> <<"c">>]
    /\ user_query = <<"u">>
    /\ search_docs = 1

\* Specification SpecStream: run_with_streaming on every stream of up to
\* MaxChunks chunks
InitStream ==
    /\ InitStreamingRequest
    /\ overrides \in {f \in Flags : f.retrieval_mode = "unset" /\ ~f.semantic_ranker
                                    /\ ~f.semantic_captions}
    /\ stream \in SeqsUpTo(StreamChunksOf(approach), MaxChunks)

SpecStream == InitStream /\ [][Next]_vars

\* "answer text<<Q1>><<Q2>>"
MarkedAnswer ==
    << "a", "n", "s", "w", "e", "r", " ", "t", "e", "x", "t",
       "<", "<", "Q", "1", ">", ">", "<", "<", "Q", "2", ">", ">" >>

\* every way of cutting s into at most n consecutive non-empty fragments
RECURSIVE Cuttings(_, _)
Cuttings(s, n) ==
    IF s = <<>> THEN {<<>>}
    ELSE IF n = 1 THEN {<<Delta(s)>>}
    ELSE {<<Delta(s)>>} \cup
         UNION { {<<Delta(SubSeq(s, 1, i))>> \o rest :
                     rest \in Cuttings(SubSeq(s, i + 1, Len(s)), n - 1)} : i \in 1..(Len(s) - 1) }

\* Specification SpecReassemble: run_with_streaming, follow-up questions
\* asked for, on every cutting of the marked answer into fragments
InitReassemble ==
    /\ InitStreamingRequest
    /\ overrides = [retrieval_mode |-> "unset", semantic_ranker |-> FALSE,
                    semantic_captions |-> FALSE, suggest_followup_questions |-> TRUE]
    /\ stream \in Cuttings(MarkedAnswer, MaxFragments)

SpecReassemble == InitReassemble /\ [][Next]_vars


(***************************************************************************)
(* Properties of extract_followup_questions (SpecExtract)                  *)
(***************************************************************************)
NoEmptyPair(s) == \A i \in 1..Len(DelimitedPairsFrom(s, 1)) : DelimitedPairsFrom(s, 1)[i] # <<>>

\* C5: for every text, extract_followup_questions returns the part before the
\* first "<<" (the whole text without a marker) and, in order of appearance,
\* every substring delimited by a "<<" and the next ">>", one per pair.
\* Stated for the texts none of whose delimited substrings is empty, so that
\* the statement does not rest on whether "<<>>" counts as a question.
C5_EveryDelimitedPairExtracted ==
    (pc = "extracted" /\ NoEmptyPair(text))
        => extracted = <<SplitFirst(text), DelimitedPairsFrom(text, 1)>>

(***************************************************************************)
(* Properties of get_search_query (SpecQuery)                              *)
(***************************************************************************)
\* the function calls the class's method looks at
FunctionCallsOf(class, message) ==
    IF class = "ChatApproach"
    THEN SelectSeq(message.tool_calls, LAMBDA t : t.type = "function")
    ELSE message.function_call
SearchSourcesCalls(class, message) ==
    SelectSeq(FunctionCallsOf(class, message), LAMBDA t : t.name = "search_sources")
\* a payload whose search_query is "0" or that has no search_query field
CarriesSentinel(call) ==
    /\ call.arguments.valid
    /\ (~call.arguments.has_search_query \/ call.arguments.search_query = <<"0">>)
IsPlainText(message) ==
    message.tool_calls = <<>> /\ message.function_call = <<>> /\ message.content # None
SomeSentinelCall ==
    \E i \in 1..Len(SearchSourcesCalls(approach, response_message)) :
        CarriesSentinel(SearchSourcesCalls(approach, response_message)[i])
OnlySentinelCalls ==
    /\ SearchSourcesCalls(approach, response_message) # <<>>
    /\ \A i \in 1..Len(SearchSourcesCalls(approach, response_message)) :
           CarriesSentinel(SearchSourcesCalls(approach, response_message)[i])
PlainTextFallback ==
    (IsPlainText(response_message) /\ Strip(response_message.content) = <<"0">>)
        => query_text = Return(user_query)
SentinelNeverReturned ==
    (query_text.kind = "return" /\ query_text.value = <<"0">>) => user_query = <<"0">>

\* C6 as stated: whenever a search_sources function call of the response has
\* search_query "0" (or no search_query field), and whenever a plain-text
\* response is "0" after stripping, the original user query is returned; "0"
\* is returned only when the user query is "0".  (Read of the queries that
\* are returned: a call that raises returns none.)
C6_SentinelFallsBack ==
    pc = "queried" =>
        /\ (SomeSentinelCall /\ query_text.kind = "return") => query_text.value = user_query
        /\ PlainTextFallback
        /\ SentinelNeverReturned

\* C6 amended: the same, for the responses all of whose search_sources
\* function calls carry the sentinel (a later call of ChatApproach's loop that
\* carries a usable query, or a malformed payload, decides otherwise).
C6_OnlySentinelsFallBack ==
    pc = "queried" =>
        /\ OnlySentinelCalls => query_text = Return(user_query)
        /\ PlainTextFallback
        /\ SentinelNeverReturned

\* C6's case: a search_sources call with the sentinel, a content that would
\* have been usable, and the user query returned
C6_Witness ==
    /\ pc = "queried"
    /\ OnlySentinelCalls
    /\ response_message.content = <<"c">>
    /\ user_query = <<"u">>
    /\ query_text = Return(<<"u">>)

NoSearchSourcesCall == SearchSourcesCalls(approach, response_message) = <<>>
\* a plain-text content that is not empty and not the sentinel after stripping
UsablePlainText ==
    Truthy(response_message.content) /\ Strip(response_message.content) # <<"0">>
\* a search_sources call whose payload holds a search_query other than "0"
UsableCallQuery ==
    \E i \in 1..Len(SearchSourcesCalls(approach, response_message)) :
        LET arguments == SearchSourcesCalls(approach, response_message)[i].arguments
        IN  arguments.valid /\ arguments.has_search_query /\ arguments.search_query # <<"0">>

\* the first half of C14 alone: without a search_sources function call, a
\* usable plain text is the returned query
PlainTextWithoutSearchSources ==
    (pc = "queried" /\ NoSearchSourcesCall /\ UsablePlainText)
        => query_text = Return(response_message.content)

\* C14: whenever the response holds no function call named search_sources
\* (its tool calls may all name other functions or not be function tools) and
\* its plain-text content is non-empty and not the sentinel after stripping,
\* the returned query is that plain text; the original user message is
\* returned only when neither a usable function-call query nor a usable plain
\* text exists.
C14_PlainTextPrecedence ==
    /\ PlainTextWithoutSearchSources
    /\ (pc = "queried" /\ query_text = Return(user_query))
          => (~UsableCallQuery /\ ~UsablePlainText)

\* the precedence the two methods do implement: the plain text is looked at
\* only when the response holds no tool call (no function_call) at all
PlainTextWithoutAnyCall ==
    (pc = "queried" /\ response_message.tool_calls = <<>> /\ response_message.function_call = <<>>
     /\ UsablePlainText)
        => query_text = Return(response_message.content)

(***************************************************************************)
(* Properties of the system-prompt override protocol (SpecSystemPrompt)    *)
(***************************************************************************)
\* the template with the fields of `filled` replaced and everything else,
\* the other fields included, left as it is
RECURSIVE Filled(_, _)
Filled(template, filled) ==
    IF template = <<>> THEN <<>>
    ELSE (IF Head(template) \in DOMAIN filled THEN filled[Head(template)] ELSE <<Head(template)>>)
         \o Filled(Tail(template), filled)

\* the default template with its two slots filled
DefaultWith(injected, follow_up) ==
    Filled(system_message_chat_conversation, BothFields(injected, follow_up))

\* C12: when the override is absent the result is the default template with
\* an empty injected-prompt slot; when it starts with ">>>" the result is the
\* default template with the override minus that prefix (and a line break)
\* in the injected-prompt slot; in every other case the result is the
\* override itself with only the follow-up-questions-prompt slot
\* substituted.
C12_OverrideProtocol ==
    pc = "formatted" =>
        IF override_prompt = None
        THEN system_message = Return(DefaultWith(<<>>, follow_up_questions_prompt))
        ELSE IF StartsWithPrefix(override_prompt)
             THEN system_message =
                    Return(DefaultWith(AfterPrefix(override_prompt) \o <<"\n">>,
                                       follow_up_questions_prompt))
             ELSE system_message =
                    Return(Filled(override_prompt, FollowUpField(follow_up_questions_prompt)))

\* the overrides that str.format accepts with the follow-up argument alone
NoOtherField(override) == \A i \in 1..Len(override) : override[i] # InjectedSlot

\* the protocol for the overrides that are absent, start with ">>>" or hold
\* no field but the follow-up one
OverrideProtocolWithoutOtherFields ==
    (pc = "formatted" /\ (override_prompt = None \/ StartsWithPrefix(override_prompt)
                          \/ NoOtherField(override_prompt)))
        => C12_OverrideProtocol

(***************************************************************************)
(* Properties of the streamed answer (SpecReassemble, SpecStream)          *)
(***************************************************************************)
IsContent(e) == e.context = "none"
IsFinal(e) == e.context = "followup_questions"

\* the visible content forwarded to the caller: the content events' texts
RECURSIVE Visible(_)
Visible(evs) ==
    IF evs = <<>> THEN <<>>
    ELSE (IF IsContent(Head(evs)) THEN OrEmpty(Head(evs).delta) ELSE <<>>) \o Visible(Tail(evs))

\* C1: however "answer text<<Q1>><<Q2>>" is cut into fragments, the content
\* forwarded is exactly "answer text" and the final event's follow-up list is
\* ["Q1", "Q2"].
C1_SplitBoundaryIndependence ==
    pc = "done" =>
        /\ Visible(events) = SubSeq(MarkedAnswer, 1, 11)
        /\ events # <<>>
        /\ IsFinal(events[Len(events)])
        /\ events[Len(events)].followup_questions = << <<"Q", "1">>, <<"Q", "2">> >>

\* C4: once a fragment with the marker has been seen, no part of a later
\* fragment is forwarded, every later fragment is appended in full to the
\* follow-up buffer, and the state never returns to STREAMING_ANSWER.
C4_NothingForwardedAfterMarker ==
    [][(followup_questions_started /\ pulled' = pulled + 1 /\ stream[pulled'].choices)
          => /\ events' = events
             /\ followup_content' = followup_content \o OrEmpty(stream[pulled'].content)
             /\ followup_questions_started']_vars

\* C10: the first event is the header with context and session_state, emitted
\* before the completion is awaited and any chunk pulled; no later event
\* carries the shared context or session_state; when the stream has ended, a
\* final event carrying only the extracted list is the last event exactly
\* when the follow-up buffer is not empty, and there is no other final event.
C10_StreamShape ==
    /\ events # <<>> => events[1] = HeaderEvent
    /\ (pulled > 0 \/ \E i \in 1..Len(calls) : calls[i] = "answer_issued") => events # <<>>
    /\ \A i \in 2..Len(events) : events[i].context # "extra_info" /\ ~events[i].session_state
    /\ \A i \in 1..Len(events) : IsFinal(events[i]) => (pc = "done" /\ i = Len(events))
    /\ pc = "done" =>
          /\ (followup_content # <<>>) <=> IsFinal(events[Len(events)])
          /\ IsFinal(events[Len(events)]) =>
                /\ events[Len(events)] =
                     [delta |-> Role, context |-> "followup_questions", session_state |-> FALSE,
                      followup_questions |-> events[Len(events)].followup_questions]
                /\ events[Len(events)].followup_questions = FindAllFrom(followup_content, 1)

\* C10's case: a stream with forwarded content and a buffer without a
\* well-formed pair, ended by a final event with the empty list
C10_Witness ==
    /\ pc = "done"
    /\ Len(events) >= 3
    /\ IsContent(events[2])
    /\ IsFinal(events[Len(events)])
    /\ events[Len(events)].followup_questions = <<>>

\* the chunks among the first k of the stream that have a choice
WithChoices(k) == SelectSeq(SubSeq(stream, 1, k), LAMBDA chunk : chunk.choices)

\* one content event per chunk with a choice, carrying the chunk's content
\* as it was received
Forwarded(k) == [i \in 1..Len(WithChoices(k)) |-> ContentEvent(WithChoices(k)[i].content)]

\* as long as no marker has been seen, the events after the header are the
\* chunks pulled so far, those with an empty choice list left out
ForwardedAsReceived ==
    ((pc \in {"streaming", "done"} \/ pulled > 0) /\ ~followup_questions_started) =>
        /\ events = <<HeaderEvent>> \o Forwarded(pulled)
        /\ followup_content = <<>>

\* pulling a chunk with an empty choice list yields nothing, leaves the
\* reassembler as it is and lets the iteration go on
EmptyChoicesSkipped ==
    (pulled' = pulled + 1 /\ ~stream[pulled'].choices) =>
        /\ events' = events
        /\ followup_questions_started' = followup_questions_started
        /\ followup_content' = followup_content
        /\ pc' = "streaming"

\* C15: before the marker appears, the content events forwarded to the
\* caller are the received chunks with the empty-choice-list chunks removed,
\* in the same order and with unmodified content, each forwarded before the
\* next chunk is pulled; a chunk with an empty choice list produces no event,
\* changes no reassembler state and raises no error.
C15_ForwardedInOrder == []ForwardedAsReceived /\ [][EmptyChoicesSkipped]_vars

\* a chunk whose content is None handed to the loop that tests
\* '"<<" in content' without replacing None first
NoneContentTested ==
    /\ approach = "ChatReadRetrieveReadApproach"
    /\ overrides.suggest_followup_questions
    /\ \E i \in 1..Len(stream) : stream[i] = Delta(None)

\* the statement of C15 for every other stream
ForwardedInOrderWithoutNoneTested ==
    [](~NoneContentTested => ForwardedAsReceived) /\ [][EmptyChoicesSkipped]_vars

(***************************************************************************)
(* Properties of one request (SpecRequest)                                 *)
(***************************************************************************)
Called(op) == \E i \in 1..Len(calls) : calls[i] = op
IsPrefix(a, b) == Len(a) <= Len(b) /\ SubSeq(b, 1, Len(a)) = a

\* C7: with retrieval_mode "text" the search call carries no vector and no
\* embedding is computed; with "vectors" it carries no query text; with
\* "hybrid" or unset it carries both; a semantic-ranked search is requested
\* only when text search is active.
C7_RetrievalModeMatrix ==
    /\ overrides.retrieval_mode = "text" => ~Called("embedding_issued")
    /\ Called("search_issued") =>
          /\ overrides.retrieval_mode = "text" => search_call.vector = None
          /\ overrides.retrieval_mode = "vectors" => search_call.query_text = None
          /\ overrides.retrieval_mode \in {"hybrid", "unset"} =>
                (search_call.query_text # None /\ search_call.vector # None)
          /\ search_call.query_type = "semantic" =>
                (overrides.retrieval_mode \in {"text", "hybrid", "unset"}
                 /\ search_call.query_text # None)

\* C7's case: the iterative strategy, vectors only, the semantic ranker asked
\* for, and the search issued without it
C7_Witness ==
    /\ approach \in Iterative
    /\ overrides.retrieval_mode = "vectors"
    /\ overrides.semantic_ranker
    /\ Called("search_issued")
    /\ search_call.query_type = "simple"
    /\ search_call.vector = Embedding

\* the external calls of a whole request, in order
ExpectedCalls ==
    (IF approach \in Iterative THEN <<"rewrite_issued", "rewrite_done">> ELSE <<>>)
    \o (IF overrides.retrieval_mode \in {"vectors", "hybrid", "unset"}
        THEN <<"embedding_issued", "embedding_done">> ELSE <<>>)
    \o <<"search_issued", "search_consumed", "answer_issued", "answer_done">>

\* C8: the external calls of a request happen in a fixed order, each one
\* completed before the next is issued: query rewrite (iterative strategy),
\* embedding when vectors are used, search with its results consumed, answer
\* completion; the answer completion is never issued before the search has
\* completed.
C8_CallOrder ==
    /\ IsPrefix(calls, ExpectedCalls)
    /\ Called("answer_issued") => Called("search_consumed")

\* C8's case: a streamed request of the iterative strategy with vectors, run
\* to its end
C8_Witness ==
    /\ pc = "done"
    /\ approach \in Iterative
    /\ should_stream
    /\ Len(calls) = 8

MalformedCall(call) == ~call.arguments.valid
SomeMalformedCall ==
    \E i \in 1..Len(SearchSourcesCalls(approach, response_message)) :
        MalformedCall(SearchSourcesCalls(approach, response_message)[i])
\* a malformed search_sources call that no usable query precedes
MalformedCallReached ==
    \E i \in 1..Len(SearchSourcesCalls(approach, response_message)) :
        /\ MalformedCall(SearchSourcesCalls(approach, response_message)[i])
        /\ \A j \in 1..(i - 1) : CarriesSentinel(SearchSourcesCalls(approach, response_message)[j])
FailedOnParse ==
    /\ pc = "failed"
    /\ response = Failed("JSONDecodeError")
    /\ ~Called("search_issued")
    /\ ~Called("answer_issued")
    /\ events = <<>>

\* C9 as stated: when the query-rewrite response carries a search_sources
\* function call with a malformed payload, the request fails with the parse
\* error: no search, no answer completion, no envelope and no stream event.
C9_MalformedPayloadFails ==
    (approach \in Iterative /\ Called("rewrite_done") /\ SomeMalformedCall) => FailedOnParse

\* C9 amended: the same, when no search_sources function call before the
\* malformed one yields a usable query (ChatApproach returns the first usable
\* query without parsing the calls after it).
C9_ReachedMalformedPayloadFails ==
    (approach \in Iterative /\ Called("rewrite_done") /\ MalformedCallReached) => FailedOnParse

\* C9's case: a streamed ChatApproach request whose response holds a call
\* with the sentinel and then a malformed one
C9_Witness ==
    /\ approach = "ChatApproach"
    /\ should_stream
    /\ Len(response_message.tool_calls) = 2
    /\ MalformedCallReached
    /\ FailedOnParse

Count(op) == Cardinality({i \in 1..Len(calls) : calls[i] = op})

\* the answer of a request run to its end: the envelope with the completion's
\* text, or the header event and the whole stream iterated
AnswerReturned ==
    IF should_stream
    THEN events # <<>> /\ events[1] = HeaderEvent /\ pulled = Len(stream)
    ELSE /\ response.kind = "return"
         /\ response.content \o
              (IF approach \in Iterative /\ overrides.suggest_followup_questions
                  /\ ContainsMarker(AnswerText(stream))
               THEN FromMarker(AnswerText(stream)) ELSE <<>>) = AnswerText(stream)

LinesBuiltFrom(body) ==
    /\ Len(results) = search_docs
    /\ \A i \in 1..Len(results) : results[i].body = body

\* C16: in the iterative strategy, for every combination of retrieval_mode,
\* semantic_ranker and semantic_captions, the source lines are built from the
\* results' captions only in requests whose search call asked the search
\* service for extractive captions; in every other request they are built
\* from the raw body text.
C16_CaptionsOnlyWhenAsked ==
    (approach \in Iterative /\ Called("search_consumed")) =>
        IF search_call.query_caption THEN LinesBuiltFrom("captions") ELSE LinesBuiltFrom("content")

\* the requests in which the captions flag and the search call agree
CaptionsFlagMatchesCall == use_semantic_captions(overrides) = search_call.query_caption

\* the statement of C16 for the requests whose captions flag and search call
\* agree, and for the searches that find nothing
CaptionsOnlyWhenAskedAndFlagged ==
    (approach \in Iterative /\ Called("search_consumed")
     /\ (CaptionsFlagMatchesCall \/ search_docs = 0))
        => IF search_call.query_caption
           THEN LinesBuiltFrom("captions") ELSE LinesBuiltFrom("content")

(***************************************************************************)
(* Properties of get_messages_from_history (SpecPrompt)                    *)
(***************************************************************************)
PriorHistory == AllButLast(history)
SystemMessage == Message(SYSTEM, system_prompt)
NewUserMessage == Message(USER, user_content)
Suffix(list, n) == SubSeq(list, Len(list) - n + 1, Len(list))
FixedCost == TotalTokens(<<SystemMessage>> \o few_shots \o <<NewUserMessage>>)
KeptHistory == Len(messages) - Len(few_shots) - 2

\* C2: whenever the budget covers the system message, the few-shot messages
\* and the new user content message, the estimated token costs of all the
\* returned messages sum to at most the budget.
C2_TotalCostWithinBudget ==
    (pc = "built" /\ max_tokens >= FixedCost) => TotalTokens(messages) <= max_tokens

\* C3: the returned list is the system message, the few-shot examples in
\* their given order, a contiguous most-recent suffix of the prior history in
\* chronological order, and the new user content last.
C3_PromptOrdering ==
    pc = "built" =>
        \E n \in 0..Len(PriorHistory) :
            messages = <<SystemMessage>> \o few_shots \o Suffix(PriorHistory, n) \o <<NewUserMessage>>

\* C13: whenever the system message, the few-shot messages and the new user
\* content message together already cost more than max_tokens, no history
\* message is added and no error raised: the returned list is exactly the
\* system message, the few-shots and the new user content.
C13_NoHistoryBeyondBudget ==
    (pc = "built" /\ FixedCost > max_tokens)
        => messages = <<SystemMessage>> \o few_shots \o <<NewUserMessage>>

\* C3's case: few-shots present, some history dropped, and at least two
\* different history messages kept (so that their order shows)
C3_Witness ==
    /\ pc = "built"
    /\ few_shots # <<>>
    /\ KeptHistory >= 2
    /\ KeptHistory < Len(PriorHistory)
    /\ messages[Len(few_shots) + 2] # messages[Len(few_shots) + 3]

====
